---------------------------- MODULE Spec2Model ----------------------------
(***************************************************************************)
(* Earnings dashboard (src/app.py, src/app_old.py): the comparison of a    *)
(* company's actual results with the expected ones (consensus or one       *)
(* broker), the per-metric beat flags, and the all-companies table.        *)
(*                                                                         *)
(* Numbers are exact rationals <<n, d>> (d > 0, lowest terms); Python's    *)
(* binary floating point rounding is not modelled.  The same pair shape    *)
(* carries the non-numbers: None, a missing dictionary key, and a raised   *)
(* ZeroDivisionError.                                                      *)
(***************************************************************************)
EXTENDS Integers, Sequences, FiniteSets, TLC

VARIABLES
    session_state,    \* app.py:37, 46  the keys of st.session_state
    login_u, login_p, \* app.py:32-33  u and p of the last submit of the login form
    COL_ACTUAL,       \* app.py:59  the documents of LatestCmotData, in find() order
    COL_PREVIEW,      \* app.py:60  the documents of company_result_previews
    ALL_ACTUALS,      \* app.py:116  ordered dict isin -> {"name", "data"}, as a sequence
    ALL_PREVIEWS,     \* app.py:117  dict (isin, period) -> {"name", "data"}
    pc,               \* position of the script run
    EXPECTED_PERIODS, \* app.py:138
    ACTUAL_PERIODS,   \* app.py:139
    expected_period,  \* app.py:266
    actual_period,    \* app.py:267
    broker,           \* app.py:271
    report_type,      \* app.py:273
    show_all,         \* app.py:276, 283-284
    selected_name,    \* app.py:280
    idx,              \* position of the loop of app.py:297
    rows,             \* app.py:296
    row,              \* app.py:298 / 324: the last result of process_company
    cur_isin,         \* the isin of that call
    df_all,           \* app.py:303-308
    view,             \* what the run rendered
    pa, pe, pr        \* a call pct(pa, pe) and its result

vars == <<session_state, login_u, login_p, COL_ACTUAL, COL_PREVIEW,
          ALL_ACTUALS, ALL_PREVIEWS, pc, EXPECTED_PERIODS, ACTUAL_PERIODS,
          expected_period, actual_period, broker, report_type, show_all,
          selected_name, idx, rows, row, cur_isin, df_all, view, pa, pe, pr>>

\* What a run after the login gate never changes.
Session == <<session_state, login_u, login_p, COL_ACTUAL, COL_PREVIEW>>

(***************************************************************************)
(* Bounds of the model.                                                    *)
(***************************************************************************)
MaxK == 5            \* pct inputs are the multiples of 20 in -20*MaxK .. 20*MaxK
NumCompanies == 3    \* companies of the all-companies universe

(***************************************************************************)
(* Values.                                                                 *)
(***************************************************************************)
None    == <<0, 0>>     \* Python None
Missing == <<0, -1>>    \* the key is not in the dictionary
ZeroDivisionError == <<0, -2>>

IsNum(v) == v[2] > 0

Abs(n) == IF n < 0 THEN -n ELSE n

RECURSIVE GCD(_, _)
GCD(a, b) == IF b = 0 THEN a ELSE GCD(b, a % b)

\* The rational n/d (d # 0) in lowest terms with a positive denominator.
Norm(n, d) ==
    LET s == IF d < 0 THEN -1 ELSE 1
        g == GCD(Abs(n), Abs(d))
    IN  <<(s * n) \div g, (s * d) \div g>>

Num(n) == <<n, 1>>

\* a / e, a - e, a * e on numbers; an error operand is passed on.
RDiv(a, e) ==
    IF ~IsNum(a) THEN a
    ELSE IF ~IsNum(e) THEN e
    ELSE IF e[1] = 0 THEN ZeroDivisionError
    ELSE Norm(a[1] * e[2], a[2] * e[1])

RSub(a, e) ==
    IF ~IsNum(a) THEN a
    ELSE IF ~IsNum(e) THEN e
    ELSE Norm(a[1] * e[2] - e[1] * a[2], a[2] * e[2])

RMul(a, e) ==
    IF ~IsNum(a) THEN a
    ELSE IF ~IsNum(e) THEN e
    ELSE Norm(a[1] * e[1], a[2] * e[2])

\* v > 0 for a number v.
Positive(v) == IsNum(v) /\ v[1] > 0

\* a > e for numbers a, e.
Greater(a, e) == a[1] * e[2] > e[1] * a[2]

\* dict.get(key): a missing key reads as None.
Get(v) == IF v = Missing THEN None ELSE v

(***************************************************************************)
(* pct, app.py:160-163 (the same in app_old.py).                           *)
(***************************************************************************)
\* Mutant: the zero test on e is lost.
pct_nozero(a, e) ==
    IF a = None \/ e = None THEN None
    ELSE RMul(RSub(RDiv(a, e), Num(1)), Num(100))

pct(a, e) ==
    IF a = None \/ e \in {None, Num(0)} THEN None
    ELSE RMul(RSub(RDiv(a, e), Num(1)), Num(100))

(***************************************************************************)
(* The loaded documents.                                                   *)
(*   A dictionary value that may be missing or null carries a kind:        *)
(*   "absent" (no such key), "null" (the key holds None) or "dict"/"list". *)
(***************************************************************************)
ActKeys == {"net_sales", "ebitda", "net_profit", "ebitda_margin", "pat_margin"}
ExpKeys == {"expected_sales", "expected_ebitda", "expected_pat",
            "ebitda_margin_percent", "pat_margin_percent"}
Columns == {"Sales", "EBITDA", "PAT", "EBITDA Margin", "PAT Margin"}
PctColumns == {"Sales", "EBITDA", "PAT"}

\* The key of a column in the actual block and in the expected record.
ActKey(c) ==
    CASE c = "Sales" -> "net_sales"
      [] c = "EBITDA" -> "ebitda"
      [] c = "PAT" -> "net_profit"
      [] c = "EBITDA Margin" -> "ebitda_margin"
      [] c = "PAT Margin" -> "pat_margin"

ExpKey(c) ==
    CASE c = "Sales" -> "expected_sales"
      [] c = "EBITDA" -> "expected_ebitda"
      [] c = "PAT" -> "expected_pat"
      [] c = "EBITDA Margin" -> "ebitda_margin_percent"
      [] c = "PAT Margin" -> "pat_margin_percent"

NoPeriod == "None"      \* a selectbox without options returns None
NoIsin == "None"        \* company_name_to_isin.get of an unknown name
Blank == [k \in ActKeys |-> Missing]
BlankExp == [k \in ExpKeys |-> Missing]
BlankCol == [c \in Columns |-> None]

\* `not actual_block`: None, a missing key, or an empty dictionary.
Falsy(block) ==
    \/ block.kind \in {"absent", "null"}
    \/ \A k \in ActKeys : block.f[k] = Missing

\* ALL_ACTUALS.get(isin): the entry, or kind "absent".
ActualEntry(ACTUALS, isin) ==
    IF \E i \in 1..Len(ACTUALS) : ACTUALS[i].isin = isin
    THEN LET i == CHOOSE j \in 1..Len(ACTUALS) : ACTUALS[j].isin = isin
         IN  [kind |-> "entry", name |-> ACTUALS[i].name, data |-> ACTUALS[i].data]
    ELSE [kind |-> "absent"]

\* Mutant: a statement type without the period falls back to the other one.
ActualBlock_fallback(actual_doc, rt, ap) ==
    LET other == IF rt = "Standalone" THEN "Consolidated" ELSE "Standalone"
        has(t) == /\ actual_doc[t].kind = "dict"
                  /\ actual_doc[t].akind = "dict"
                  /\ ap \in DOMAIN actual_doc[t].per
        stmt == actual_doc[IF has(rt) THEN rt ELSE other]
    IN  IF stmt.kind = "absent" THEN [kind |-> "absent", f |-> Blank]
        ELSE IF stmt.kind = "null" THEN [kind |-> "raise", f |-> Blank]
        ELSE IF stmt.akind = "absent" THEN [kind |-> "absent", f |-> Blank]
        ELSE IF stmt.akind = "null" THEN [kind |-> "raise", f |-> Blank]
        ELSE IF ap \notin DOMAIN stmt.per THEN [kind |-> "absent", f |-> Blank]
        ELSE stmt.per[ap]

\* actual_doc.get(report_type, {}).get("actual", {}).get(actual_period):
\* kind "raise" when .get is called on None.
ActualBlock(actual_doc, rt, ap) ==
    LET stmt == actual_doc[rt]
    IN  IF stmt.kind = "absent" THEN [kind |-> "absent", f |-> Blank]
        ELSE IF stmt.kind = "null" THEN [kind |-> "raise", f |-> Blank]
        ELSE IF stmt.akind = "absent" THEN [kind |-> "absent", f |-> Blank]
        ELSE IF stmt.akind = "null" THEN [kind |-> "raise", f |-> Blank]
        ELSE IF ap \notin DOMAIN stmt.per THEN [kind |-> "absent", f |-> Blank]
        ELSE stmt.per[ap]      \* kind "null" or "dict"

\* cons.get(key, {}).get("mean") for every key; "raise" when an entry is None.
ConsensusValues(preview_doc) ==
    IF preview_doc.ckind = "absent" THEN [kind |-> "ok", f |-> [k \in ExpKeys |-> None]]
    ELSE IF preview_doc.ckind = "null" THEN [kind |-> "raise", f |-> BlankExp]
    ELSE IF \E k \in ExpKeys : preview_doc.cons[k].kind = "null"
         THEN [kind |-> "raise", f |-> BlankExp]
    ELSE [kind |-> "ok",
          f |-> [k \in ExpKeys |->
                   IF preview_doc.cons[k].kind = "absent" THEN None
                   ELSE Get(preview_doc.cons[k].mean)]]

\* The index of the first entry named b, 0 if there is none.
RECURSIVE FirstMatch(_, _, _)
FirstMatch(list, b, i) ==
    IF i > Len(list) THEN 0
    ELSE IF list[i].has_name /\ list[i].broker_name = b THEN i
    ELSE FirstMatch(list, b, i + 1)

\* next((x for x in preview_doc.get("broker_estimates", []) if
\* x["broker_name"] == broker), None) and the reads of its fields.
BrokerValues(preview_doc, b) ==
    IF preview_doc.bkind = "absent" THEN [kind |-> "None", f |-> BlankExp]
    ELSE IF preview_doc.bkind = "null" THEN [kind |-> "raise", f |-> BlankExp]
    ELSE LET list == preview_doc.brokers
             m == FirstMatch(list, b, 1)
             scanned == IF m = 0 THEN Len(list) ELSE m
         IN  IF \E i \in 1..scanned : ~list[i].has_name
             THEN [kind |-> "raise", f |-> BlankExp]      \* KeyError
             ELSE IF m = 0 THEN [kind |-> "None", f |-> BlankExp]
             ELSE [kind |-> "ok", f |-> [k \in ExpKeys |-> Get(list[m].f[k])]]

\* app.py:166-205: the actual block and the expected values of one company.
Resolve(PREVIEWS, ACTUALS, isin, ep, ap, rt, b) ==
    LET actual_entry == ActualEntry(ACTUALS, isin)
        none == [kind |-> "None", company_name |-> "", act |-> Blank, exp |-> BlankExp]
        raise == [none EXCEPT !.kind = "raise"]
    IN  IF <<isin, ep>> \notin DOMAIN PREVIEWS \/ actual_entry.kind = "absent"
        THEN none
        ELSE
        LET preview_doc == PREVIEWS[<<isin, ep>>].data
            actual_block == ActualBlock(actual_entry.data, rt, ap)
            e == IF b = "Consensus" THEN ConsensusValues(preview_doc)
                 ELSE BrokerValues(preview_doc, b)
        IN  IF actual_block.kind = "raise" THEN raise
            ELSE IF Falsy(actual_block) THEN none
            ELSE IF e.kind = "raise" THEN raise
            ELSE IF e.kind = "None" THEN none
            ELSE [kind |-> "ok", company_name |-> actual_entry.name,
                  act |-> [k \in ActKeys |-> Get(actual_block.f[k])],
                  exp |-> e.f]

\* Mutant: the margin difference is taken as a ratio, like a percentage metric.
margin_diff_ratio(a, e) ==
    IF a = None \/ e \in {None, Num(0)} THEN None
    ELSE RMul(RSub(RDiv(a, e), Num(1)), Num(100))

\* app.py:211-212 (app_old.py:208): the margin difference in basis points.
margin_diff(a, e) ==
    IF a = None \/ e = None THEN None ELSE RMul(RSub(a, e), Num(100))

\* Mutant: a zero difference counts as a beat.
beat_nonneg(c) == IF c # None /\ (Positive(c) \/ c = Num(0)) THEN 1 ELSE 0

\* app.py:215-219: the beat flag of a difference.
beat(c) == IF c # None /\ Positive(c) THEN 1 ELSE 0

NoRow(kind) ==
    [kind |-> kind, Company |-> "", ISIN |-> "", Exp |-> BlankCol, Act |-> BlankCol,
     Diff |-> BlankCol, Beat |-> [c \in Columns |-> 0], TotalBeats |-> 0]

\* Mutant: the PAT margin difference is a copy of the EBITDA margin line.
differences_copied_line(act, exp) ==
    [c \in Columns |->
        CASE c = "Sales" -> pct(act["net_sales"], exp["expected_sales"])
          [] c = "EBITDA" -> pct(act["ebitda"], exp["expected_ebitda"])
          [] c = "PAT" -> pct(act["net_profit"], exp["expected_pat"])
          [] c = "EBITDA Margin" ->
                margin_diff(act["ebitda_margin"], exp["ebitda_margin_percent"])
          [] c = "PAT Margin" ->
                margin_diff(act["ebitda_margin"], exp["ebitda_margin_percent"])]

\* app.py:208-212: cs, ce, cp, cem, cpm.
differences(act, exp) ==
    [c \in Columns |->
        CASE c = "Sales" -> pct(act["net_sales"], exp["expected_sales"])
          [] c = "EBITDA" -> pct(act["ebitda"], exp["expected_ebitda"])
          [] c = "PAT" -> pct(act["net_profit"], exp["expected_pat"])
          [] c = "EBITDA Margin" ->
                margin_diff(act["ebitda_margin"], exp["ebitda_margin_percent"])
          [] c = "PAT Margin" ->
                margin_diff(act["pat_margin"], exp["pat_margin_percent"])]

\* app.py:166-256.
process_company(PREVIEWS, ACTUALS, isin, ep, ap, rt, b) ==
    LET r == Resolve(PREVIEWS, ACTUALS, isin, ep, ap, rt, b)
        d == differences(r.act, r.exp)
        cs  == d["Sales"]
        ce  == d["EBITDA"]
        cp  == d["PAT"]
        cem == d["EBITDA Margin"]
        cpm == d["PAT Margin"]
        bs  == beat(cs)
        be  == beat(ce)
        bp  == beat(cp)
        bem == beat(cem)
        bpm == beat(cpm)
        total_beats == bs + be + bp + bem + bpm
    IN  IF r.kind # "ok" THEN NoRow(r.kind)
        ELSE IF ZeroDivisionError \in {cs, ce, cp} THEN NoRow("raise")
        ELSE [kind |-> "row", Company |-> r.company_name, ISIN |-> isin,
              Exp |-> [c \in Columns |-> r.exp[ExpKey(c)]],
              Act |-> [c \in Columns |-> r.act[ActKey(c)]],
              Diff |-> d,
              Beat |-> [c \in Columns |->
                          CASE c = "Sales" -> bs [] c = "EBITDA" -> be [] c = "PAT" -> bp
                            [] c = "EBITDA Margin" -> bem [] c = "PAT Margin" -> bpm],
              TotalBeats |-> total_beats]

\* app_old.py:166-230: four metrics, one margin.
OldColumns == {"Sales %", "EBITDA %", "PAT %", "Margin (bps)"}

process_company_old(PREVIEWS, ACTUALS, isin, ep, ap, rt, b) ==
    LET r == Resolve(PREVIEWS, ACTUALS, isin, ep, ap, rt, b)
        cs == pct(r.act["net_sales"], r.exp["expected_sales"])
        ce == pct(r.act["ebitda"], r.exp["expected_ebitda"])
        cp == pct(r.act["net_profit"], r.exp["expected_pat"])
        cm == margin_diff(r.act["ebitda_margin"], r.exp["ebitda_margin_percent"])
        bs == beat(cs)
        be == beat(ce)
        bp == beat(cp)
        bm == beat(cm)
        total == bs + be + bp + bm
        blank == [c \in OldColumns |-> None]
    IN  IF r.kind # "ok"
        THEN [kind |-> r.kind, Diff |-> blank, Beat |-> [c \in OldColumns |-> 0],
              TotalBeats |-> 0]
        ELSE [kind |-> "row",
              Diff |-> [c \in OldColumns |->
                          CASE c = "Sales %" -> cs [] c = "EBITDA %" -> ce
                            [] c = "PAT %" -> cp [] c = "Margin (bps)" -> cm],
              Beat |-> [c \in OldColumns |->
                          CASE c = "Sales %" -> bs [] c = "EBITDA %" -> be
                            [] c = "PAT %" -> bp [] c = "Margin (bps)" -> bm],
              TotalBeats |-> total]

(***************************************************************************)
(* Authentication, app.py:18-48.                                           *)
(***************************************************************************)
\* The configured secrets; the environment holds neither key.
st_secrets == [AUTH_USER |-> "admin", AUTH_PASS |-> "s3cret"]
os_environ == [MONGO_URI |-> "mongodb://db"]

\* app.py:18-21.
get_secret(key, default) ==
    IF key \in DOMAIN st_secrets THEN st_secrets[key]
    ELSE IF key \in DOMAIN os_environ THEN os_environ[key]
    ELSE default

\* Mutant: the password is not compared.
check_credentials_user_only(username, password) ==
    username = get_secret("AUTH_USER", "")

\* app.py:23-27.
check_credentials(username, password) ==
    /\ username = get_secret("AUTH_USER", "")
    /\ password = get_secret("AUTH_PASS", "")

(***************************************************************************)
(* The preload, app.py:68-117.                                             *)
(*   A document of either collection carries its identifier (company,      *)
(*   "" when the key is missing, null or empty), skind for its symbolmap   *)
(*   block and nkind for the Company_Name key of that block.               *)
(***************************************************************************)
NoName == "None"        \* a name that is Python None

\* d.get("symbolmap", {}).get("Company_Name", isin): the default stands in
\* for a missing key only, a key that holds null gives None.
NameOf(d, isin) ==
    IF d.skind = "absent" THEN isin
    ELSE IF d.nkind = "absent" THEN isin
    ELSE IF d.nkind = "null" THEN NoName
    ELSE d.Company_Name

\* actual_map[isin] = {...}: a known key keeps its place in the dictionary.
RECURSIVE actual_map(_, _)
actual_map(docs, n) ==
    IF n = 0 THEN <<>>
    ELSE LET m == actual_map(docs, n - 1)
             d == docs[n]
             isin == d.company
             entry == [isin |-> isin, name |-> NameOf(d, isin), data |-> d]
         IN  IF isin = "" THEN m
             ELSE IF \E i \in 1..Len(m) : m[i].isin = isin
             THEN [i \in 1..Len(m) |-> IF m[i].isin = isin THEN entry ELSE m[i]]
             ELSE Append(m, entry)

\* app.py:68-88; kind "raise" when .get is called on a null symbolmap.
load_all_actuals(docs) ==
    IF \E n \in 1..Len(docs) : docs[n].company # "" /\ docs[n].skind = "null"
    THEN [kind |-> "raise", map |-> <<>>]
    ELSE [kind |-> "ok", map |-> actual_map(docs, Len(docs))]

\* A preview document that passes `if not isin or not period: continue`.
Keyed(d) == d.skind = "dict" /\ d.company # "" /\ d.report_period # ""

\* app.py:92-113: the last document of a key is the one kept; kind "raise"
\* when .get is called on a null symbolmap (line 103).
load_all_previews(docs) ==
    LET kept == {n \in 1..Len(docs) : Keyed(docs[n])}
        last(k) == CHOOSE n \in kept :
                      /\ <<docs[n].company, docs[n].report_period>> = k
                      /\ \A o \in kept :
                            <<docs[o].company, docs[o].report_period>> = k => o <= n
    IN  IF \E n \in 1..Len(docs) : docs[n].skind = "null"
        THEN [kind |-> "raise", map |-> [x \in {} |-> 0]]
        ELSE [kind |-> "ok",
              map |-> [k \in {<<docs[n].company, docs[n].report_period>> : n \in kept} |->
                         [name |-> NameOf(docs[last(k)], docs[last(k)].company),
                          data |-> docs[last(k)]]]]

(***************************************************************************)
(* The script run, app.py:124-139 and 263-328.                             *)
(***************************************************************************)
ReportTypes == {"Standalone", "Consolidated"}
ShowAllLabel == "-- Show All --"

\* A selectbox: one of the options, None when there are none.
Options(S) == IF S = {} THEN {NoPeriod} ELSE S

\* app.py:128-135: .get on a null statement-type block or .keys() of a null
\* "actual" raises AttributeError.
PeriodsRaise(ACTUALS) ==
    \E i \in 1..Len(ACTUALS), rt \in ReportTypes :
        LET stmt == ACTUALS[i].data[rt]
        IN  stmt.kind = "null" \/ (stmt.kind = "dict" /\ stmt.akind = "null")

get_global_actual_periods(ACTUALS) ==
    UNION {IF ACTUALS[i].data[rt].kind = "dict" /\ ACTUALS[i].data[rt].akind = "dict"
           THEN DOMAIN ACTUALS[i].data[rt].per ELSE {} :
           i \in 1..Len(ACTUALS), rt \in ReportTypes}

\* app.py:124-126.
get_global_expected_periods(PREVIEWS) == {k[2] : k \in DOMAIN PREVIEWS}

\* app.py:146-153: the options of the broker selectbox; kind "raise" when a
\* broker_estimates is None (TypeError) or an entry has no broker_name
\* (KeyError).  The list is sorted for display; its order plays no part.
get_brokers_for_period(PREVIEWS, period) ==
    LET docs == {PREVIEWS[k].data : k \in {x \in DOMAIN PREVIEWS : x[2] = period}}
        lists == {d \in docs : d.bkind = "list"}
    IN  IF \/ \E d \in docs : d.bkind = "null"
           \/ \E d \in lists : \E i \in 1..Len(d.brokers) : ~d.brokers[i].has_name
        THEN [kind |-> "raise", list |-> {"Consensus"}]
        ELSE [kind |-> "ok",
              list |-> {"Consensus"} \cup
                       UNION {{d.brokers[i].broker_name : i \in 1..Len(d.brokers)} :
                              d \in lists}]

\* app.py:279: {v["name"]: isin ...}; a later company of the same name wins.
company_name_to_isin(ACTUALS, name) ==
    IF \E i \in 1..Len(ACTUALS) : ACTUALS[i].name = name
    THEN LET last == CHOOSE i \in 1..Len(ACTUALS) :
                        /\ ACTUALS[i].name = name
                        /\ \A j \in 1..Len(ACTUALS) : ACTUALS[j].name = name => j <= i
         IN  ACTUALS[last].isin
    ELSE NoIsin

\* numpy round(1): the nearest multiple of 1/10, a tie to the even one.
Round1(v) ==
    IF ~IsNum(v) THEN v
    ELSE LET n == 10 * v[1]
             d == v[2]
             f == n \div d
             rem == n - f * d
             q == IF 2 * rem < d THEN f
                  ELSE IF 2 * rem > d THEN f + 1
                  ELSE IF f % 2 = 0 THEN f ELSE f + 1
         IN  Norm(q, 10)

\* app.py:285-289 on the frame of the rows: the numeric columns rounded.
format_one_decimal(df) ==
    [i \in 1..Len(df) |->
        [df[i] EXCEPT !.Exp = [c \in Columns |-> Round1(df[i].Exp[c])],
                      !.Act = [c \in Columns |-> Round1(df[i].Act[c])],
                      !.Diff = [c \in Columns |-> Round1(df[i].Diff[c])],
                      !.TotalBeats = Round1(Num(df[i].TotalBeats))[1]]]

Injective(p) == \A i, j \in DOMAIN p : p[i] = p[j] => i = j

\* app.py:303 sort_values("Total Beats", ascending=False): pandas sorts with
\* kind="quicksort", which is not stable, so every descending order of the rows
\* is a possible outcome.
sort_values(rs) ==
    {[i \in 1..Len(rs) |-> rs[p[i]]] :
        p \in {q \in [1..Len(rs) -> 1..Len(rs)] :
                 /\ Injective(q)
                 /\ \A i, j \in 1..Len(rs) :
                        i < j => rs[q[i]].TotalBeats >= rs[q[j]].TotalBeats}}

Usernames == {"admin", "guest"}
Passwords == {"s3cret", ""}

\* app.py:46-48 and 55-117: without auth_ok in the session the run shows the
\* login form and stops; with it the run loads the two tables
\* (st.cache_data returns the first load's result to the later runs).
Gate ==
    /\ pc = "gate"
    /\ IF "auth_ok" \notin session_state
       THEN /\ pc' = "login"
            /\ view' = "login"
            /\ UNCHANGED <<ALL_ACTUALS, ALL_PREVIEWS>>
       ELSE LET a == load_all_actuals(COL_ACTUAL)
                v == load_all_previews(COL_PREVIEW)
            IN  IF a.kind = "raise" \/ v.kind = "raise"
                THEN /\ pc' = "crashed"
                     /\ view' = "exception"
                     /\ UNCHANGED <<ALL_ACTUALS, ALL_PREVIEWS>>
                ELSE /\ pc' = "start"
                     /\ ALL_ACTUALS' = a.map
                     /\ ALL_PREVIEWS' = v.map
                     /\ view' = view
    /\ UNCHANGED <<Session, EXPECTED_PERIODS, ACTUAL_PERIODS, expected_period,
                   actual_period, broker, report_type, show_all, selected_name, idx,
                   rows, row, cur_isin, df_all, pa, pe, pr>>

\* app.py:29-40 in the run of a submit of the login form (ok is true).
show_login ==
    /\ pc = "login"
    /\ \E u \in Usernames, p \in Passwords :
        /\ login_u' = u
        /\ login_p' = p
        /\ IF check_credentials(u, p)
           THEN /\ session_state' = session_state \cup {"auth_ok"}
                /\ pc' = "gate"           \* st.rerun()
                /\ view' = "none"
           ELSE /\ session_state' = session_state
                /\ pc' = "login"          \* st.error, then st.stop()
                /\ view' = "invalid"
    /\ UNCHANGED <<COL_ACTUAL, COL_PREVIEW, ALL_ACTUALS, ALL_PREVIEWS, EXPECTED_PERIODS,
                   ACTUAL_PERIODS, expected_period, actual_period, broker, report_type,
                   show_all, selected_name, idx, rows, row, cur_isin, df_all, pa, pe, pr>>

\* app.py:124-139: the period lists of the sidebar.
Startup ==
    /\ pc = "start"
    /\ IF PeriodsRaise(ALL_ACTUALS)
       THEN /\ pc' = "crashed"
            /\ view' = "exception"
            /\ UNCHANGED <<EXPECTED_PERIODS, ACTUAL_PERIODS>>
       ELSE /\ pc' = "sidebar"
            /\ EXPECTED_PERIODS' = get_global_expected_periods(ALL_PREVIEWS)
            /\ ACTUAL_PERIODS' = get_global_actual_periods(ALL_ACTUALS)
            /\ view' = view
    /\ UNCHANGED <<Session, ALL_ACTUALS, ALL_PREVIEWS, expected_period, actual_period, broker,
                   report_type, show_all, selected_name, idx, rows, row, cur_isin,
                   df_all, pa, pe, pr>>

\* app.py:263-284: the widgets of the sidebar.
Sidebar ==
    /\ pc = "sidebar"
    /\ \E ep \in Options(EXPECTED_PERIODS), ap \in Options(ACTUAL_PERIODS),
          rt \in ReportTypes, checked \in BOOLEAN,
          name \in {ShowAllLabel} \cup {ALL_ACTUALS[i].name : i \in 1..Len(ALL_ACTUALS)} :
        LET broker_list == get_brokers_for_period(ALL_PREVIEWS, ep)
        IN  /\ expected_period' = ep
            /\ actual_period' = ap
            /\ IF broker_list.kind = "raise"
               THEN /\ pc' = "crashed"
                    /\ view' = "exception"
                    /\ UNCHANGED <<broker, report_type, show_all, selected_name>>
               ELSE /\ broker' \in broker_list.list
                    /\ report_type' = rt
                    /\ selected_name' = name
                    /\ show_all' = (checked /\ name = ShowAllLabel)
                    /\ pc' = IF show_all' THEN "all" ELSE "single"
                    /\ view' = view
    /\ UNCHANGED <<Session, ALL_ACTUALS, ALL_PREVIEWS, EXPECTED_PERIODS, ACTUAL_PERIODS, idx,
                   rows, row, cur_isin, df_all, pa, pe, pr>>

\* Mutant: the row is kept whatever it is.
collect_unchecked(rs, r) == Append(rs, r)

\* app.py:299-300: if row: rows.append(row).
collect(rs, r) == IF r.kind = "row" THEN Append(rs, r) ELSE rs

\* app.py:297-300: one turn of the loop over ALL_ACTUALS.keys().
AllLoop ==
    /\ pc = "all"
    /\ idx <= Len(ALL_ACTUALS)
    /\ LET isin == ALL_ACTUALS[idx].isin
           r == process_company(ALL_PREVIEWS, ALL_ACTUALS, isin, expected_period,
                                actual_period, report_type, broker)
       IN  /\ cur_isin' = isin
           /\ row' = r
           /\ IF r.kind = "raise"
              THEN /\ pc' = "crashed"
                   /\ view' = "exception"
                   /\ UNCHANGED <<idx, rows>>
              ELSE /\ rows' = collect(rows, r)
                   /\ idx' = idx + 1
                   /\ UNCHANGED <<pc, view>>
    /\ UNCHANGED <<Session, ALL_ACTUALS, ALL_PREVIEWS, EXPECTED_PERIODS, ACTUAL_PERIODS,
                   expected_period, actual_period, broker, report_type, show_all,
                   selected_name, df_all, pa, pe, pr>>

\* app.py:302-316: the sorted table, or the warning, then st.stop().
AllFinish ==
    /\ pc = "all"
    /\ idx > Len(ALL_ACTUALS)
    /\ df_all' \in IF rows # <<>>
                   THEN {format_one_decimal(d) : d \in sort_values(rows)}
                   ELSE {<<>>}
    /\ view' = IF rows # <<>> THEN "table" ELSE "warning"
    /\ pc' = "done"
    /\ UNCHANGED <<Session, ALL_ACTUALS, ALL_PREVIEWS, EXPECTED_PERIODS, ACTUAL_PERIODS,
                   expected_period, actual_period, broker, report_type, show_all,
                   selected_name, idx, rows, row, cur_isin, pa, pe, pr>>

\* app.py:323-359: the single-company view.
Single ==
    /\ pc = "single"
    /\ LET selected_isin == company_name_to_isin(ALL_ACTUALS, selected_name)
           r == process_company(ALL_PREVIEWS, ALL_ACTUALS, selected_isin,
                                expected_period, actual_period, report_type, broker)
       IN  /\ cur_isin' = selected_isin
           /\ row' = r
           /\ pc' = IF r.kind = "raise" THEN "crashed" ELSE "done"
           /\ view' = CASE r.kind = "raise" -> "exception"
                        [] r.kind = "None" -> "error"
                        [] r.kind = "row" -> "single"
    /\ UNCHANGED <<Session, ALL_ACTUALS, ALL_PREVIEWS, EXPECTED_PERIODS, ACTUAL_PERIODS,
                   expected_period, actual_period, broker, report_type, show_all,
                   selected_name, idx, rows, df_all, pa, pe, pr>>

\* A widget changes: the script runs again from its first line, with the
\* session_state of the session; the widgets are read anew by Sidebar.
Rerun ==
    /\ pc = "done"
    /\ pc' = "gate"
    /\ idx' = 1
    /\ rows' = <<>>
    /\ row' = NoRow("unset")
    /\ cur_isin' = NoIsin
    /\ df_all' = <<>>
    /\ view' = "none"
    /\ expected_period' = NoPeriod
    /\ actual_period' = NoPeriod
    /\ broker' = "Consensus"
    /\ report_type' = "Standalone"
    /\ show_all' = TRUE
    /\ selected_name' = ShowAllLabel
    /\ UNCHANGED <<Session, ALL_ACTUALS, ALL_PREVIEWS, EXPECTED_PERIODS, ACTUAL_PERIODS,
                   pa, pe, pr>>

Next == Gate \/ show_login \/ Startup \/ Sidebar \/ AllLoop \/ AllFinish \/ Single \/ Rerun

(***************************************************************************)
(* The documents the specifications start from.                            *)
(***************************************************************************)
EmptyFn == [x \in {} |-> 0]
Half(n) == Norm(n, 2)

Rec(f) == [kind |-> "dict", f |-> f]
NullRec == [kind |-> "null", f |-> Blank]
StmtAbsent == [kind |-> "absent", akind |-> "absent", per |-> EmptyFn]
StmtNull == [kind |-> "null", akind |-> "absent", per |-> EmptyFn]
StmtNoActual == [kind |-> "dict", akind |-> "absent", per |-> EmptyFn]
StmtNullActual == [kind |-> "dict", akind |-> "null", per |-> EmptyFn]
Stmt(per) == [kind |-> "dict", akind |-> "dict", per |-> per]

ActRec(sales, ebitda, pat, em, pm) ==
    [k \in ActKeys |->
        CASE k = "net_sales" -> sales [] k = "ebitda" -> ebitda [] k = "net_profit" -> pat
          [] k = "ebitda_margin" -> em [] k = "pat_margin" -> pm]

ExpRec(sales, ebitda, pat, em, pm) ==
    [k \in ExpKeys |->
        CASE k = "expected_sales" -> sales [] k = "expected_ebitda" -> ebitda
          [] k = "expected_pat" -> pat [] k = "ebitda_margin_percent" -> em
          [] k = "pat_margin_percent" -> pm]

\* A consensus block {key: {"mean": value}}; a Missing value leaves the key out.
Consensus(f) ==
    [k \in ExpKeys |-> IF f[k] = Missing THEN [kind |-> "absent", mean |-> Missing]
                       ELSE [kind |-> "dict", mean |-> f[k]]]

Broker(name, f) == [has_name |-> TRUE, broker_name |-> name, f |-> f]
Nameless(f) == [has_name |-> FALSE, broker_name |-> "", f |-> f]

\* A document of company_result_previews; its symbolmap has no Company_Name.
Preview(isin, period, ckind, cons, bkind, brokers) ==
    [company |-> isin, report_period |-> period, skind |-> "dict", nkind |-> "absent",
     Company_Name |-> "", ckind |-> ckind, cons |-> cons, bkind |-> bkind,
     brokers |-> brokers]

\* A document of LatestCmotData; nm is <<skind, nkind, Company_Name>>.
ActualDoc(isin, nm, standalone, consolidated) ==
    [company |-> isin, skind |-> nm[1], nkind |-> nm[2], Company_Name |-> nm[3],
     Standalone |-> standalone, Consolidated |-> consolidated]

Company(isin, name, standalone, consolidated) ==
    ActualDoc(isin, <<"dict", "str", name>>, standalone, consolidated)

IsinPool == <<"INE001", "INE002", "INE003", "INE004", "INE005">>

\* The state of a new session before its first run: the collections hold
\* the documents, nothing is loaded and nobody is logged in.
Loaded(actuals, previews) ==
    /\ session_state = {}
    /\ login_u = ""
    /\ login_p = ""
    /\ COL_ACTUAL = actuals
    /\ COL_PREVIEW = previews
    /\ ALL_ACTUALS = <<>>
    /\ ALL_PREVIEWS = EmptyFn
    /\ pc = "gate"
    /\ EXPECTED_PERIODS = {}
    /\ ACTUAL_PERIODS = {}
    /\ expected_period = NoPeriod
    /\ actual_period = NoPeriod
    /\ broker = "Consensus"
    /\ report_type = "Standalone"
    /\ show_all = TRUE
    /\ selected_name = ShowAllLabel
    /\ idx = 1
    /\ rows = <<>>
    /\ row = NoRow("unset")
    /\ cur_isin = NoIsin
    /\ df_all = <<>>
    /\ view = "none"
    /\ pa = None
    /\ pe = None
    /\ pr = Missing

(***************************************************************************)
(* Spec: two companies; the documents of the first vary in what is         *)
(* missing, null or empty, and in its broker_estimates list.               *)
(***************************************************************************)
FullAct == ActRec(Num(100), Num(100), Num(100), Half(25), Half(25))
OtherAct == ActRec(Num(90), Num(90), Num(90), Num(9), Num(9))
Exp80 == ExpRec(Num(80), Num(80), Num(80), Num(10), Num(10))
Exp125 == ExpRec(Num(125), Num(125), Num(125), Num(15), Num(15))

StmtVariants ==
    {StmtAbsent, StmtNull, StmtNoActual, StmtNullActual,
     Stmt([p \in {"Q1"} |-> NullRec]),
     Stmt([p \in {"Q1"} |-> Rec(Blank)]),
     Stmt([p \in {"Q1"} |-> Rec(FullAct)]),
     Stmt([p \in {"Q2"} |-> Rec(FullAct)])}

ConsensusVariants ==
    {<<"absent", Consensus(BlankExp)>>,
     <<"null", Consensus(BlankExp)>>,
     <<"dict", Consensus(Exp80)>>,
     <<"dict", [Consensus(Exp80) EXCEPT !["expected_sales"] =
                                     [kind |-> "null", mean |-> Missing]]>>,
     <<"dict", Consensus(ExpRec(Num(80), None, Missing, Num(10), Num(0)))>>}

BrokerVariants ==
    {<<"absent", <<>> >>,
     <<"null", <<>> >>,
     <<"list", <<>> >>,
     <<"list", <<Broker("Kotak", Exp80)>> >>,
     <<"list", <<Broker("Kotak", Exp80), Broker("Kotak", Exp125)>> >>,
     <<"list", <<Broker("kotak", Exp125), Broker("Kotak", Exp80)>> >>,
     <<"list", <<Nameless(Exp125), Broker("Kotak", Exp80)>> >>,
     <<"list", <<Broker("Kotak", ExpRec(None, Missing, Num(0), Missing, None))>> >>}

SecondCompany ==
    Company("INE002", "INE002",
            Stmt([p \in {"Q1", "Q2"} |-> Rec(OtherAct)]),
            Stmt([p \in {"Q1"} |-> Rec(OtherAct)]))

SecondPreview ==
    Preview("INE002", "Q1", "dict", Consensus(Exp80), "list", <<Broker("kotak", Exp125)>>)

Init ==
    \E st \in StmtVariants,
       co \in {StmtAbsent, Stmt([p \in {"Q1"} |-> Rec(OtherAct)])},
       has_preview \in BOOLEAN, c \in ConsensusVariants, b \in BrokerVariants :
        /\ has_preview \/ (c[1] = "absent" /\ b[1] = "absent")
        /\ Loaded(<<Company("INE001", "Acme", st, co), SecondCompany>>,
                  IF has_preview
                  THEN <<Preview("INE001", "Q1", c[1], c[2], b[1], b[2]), SecondPreview>>
                  ELSE <<SecondPreview>>)

Spec == Init /\ [][Next]_vars

(***************************************************************************)
(* SpecMetrics: one company whose five metrics vary independently.         *)
(***************************************************************************)
SalesCases ==
    {<<Num(100), Num(80)>>, <<Missing, Num(100)>>, <<Num(100), None>>,
     <<Num(100), Num(0)>>, <<Num(-50), Num(-100)>>}
EbitdaCases ==
    {<<Num(200), Num(180)>>, <<Num(180), Num(200)>>, <<Missing, Num(180)>>,
     <<Num(200), Missing>>}
PatCases ==
    {<<Num(100), Num(90)>>, <<Num(-200), Num(-100)>>, <<Num(90), Num(90)>>,
     <<Missing, Num(0)>>}
EbitdaMarginCases ==
    {<<Half(25), Num(10)>>, <<Num(10), Half(25)>>, <<Missing, Num(10)>>,
     <<Num(10), Missing>>, <<Num(10), Num(0)>>}
PatMarginCases ==
    {<<Num(10), Num(8)>>, <<Missing, Num(8)>>, <<None, Num(8)>>, <<Num(8), None>>}

InitMetrics ==
    \E s \in SalesCases, e \in EbitdaCases, p \in PatCases,
       em \in EbitdaMarginCases, pm \in PatMarginCases :
        LET exp == ExpRec(s[2], e[2], p[2], em[2], pm[2])
        IN  Loaded(<<Company("INE001", "Acme",
                             Stmt([q \in {"Q1"} |->
                                     Rec(ActRec(s[1], e[1], p[1], em[1], pm[1]))]),
                             StmtAbsent)>>,
                   <<Preview("INE001", "Q1", "dict", Consensus(exp), "list",
                             <<Broker("Kotak", exp)>>)>>)

SpecMetrics == InitMetrics /\ [][Next]_vars

(***************************************************************************)
(* SpecAll: NumCompanies companies, each with no preview (its document has *)
(* no report_period) or with 0, 1 or 2 beats against the consensus; the    *)
(* display name of the first company varies.                               *)
(***************************************************************************)
\* <<skind, nkind, Company_Name>>: a name, no symbolmap, no Company_Name key,
\* a null Company_Name, a null symbolmap.
NameVariants ==
    {<<"dict", "str", "Acme">>, <<"absent", "absent", "">>, <<"dict", "absent", "">>,
     <<"dict", "null", "">>, <<"null", "absent", "">>}

Profiles == {"absent", "0", "1", "2"}

ProfileAct(pf) ==
    CASE pf = "1" -> ActRec(Num(110), Num(90), Num(90), Num(9), Num(9))
      [] pf = "2" -> ActRec(Num(110), Num(110), Num(90), Num(9), Num(9))
      [] OTHER -> OtherAct

Exp100 == ExpRec(Num(100), Num(100), Num(100), Num(10), Num(10))

InitAll ==
    \E pf \in [1..NumCompanies -> Profiles], nm \in NameVariants :
        Loaded([i \in 1..NumCompanies |->
                   ActualDoc(IsinPool[i],
                             IF i = 1 THEN nm ELSE <<"dict", "str", IsinPool[i]>>,
                             Stmt([q \in {"Q1"} |-> Rec(ProfileAct(pf[i]))]), StmtAbsent)],
               [i \in 1..NumCompanies |->
                   Preview(IsinPool[i], IF pf[i] = "absent" THEN "" ELSE "Q1",
                           "dict", Consensus(Exp100), "list", <<Broker("Kotak", Exp80)>>)])

SpecAll == InitAll /\ [][Next]_vars

(***************************************************************************)
(* SpecPct: calls of pct on its own.                                       *)
(***************************************************************************)
PctInputs == {None, Half(25)} \cup {Num(20 * k) : k \in -MaxK..MaxK}

InitPct ==
    /\ pa \in PctInputs
    /\ pe \in PctInputs
    /\ pr = Missing
    /\ session_state = {}
    /\ login_u = ""
    /\ login_p = ""
    /\ COL_ACTUAL = <<>>
    /\ COL_PREVIEW = <<>>
    /\ ALL_ACTUALS = <<>>
    /\ ALL_PREVIEWS = EmptyFn
    /\ pc = "pct"
    /\ EXPECTED_PERIODS = {}
    /\ ACTUAL_PERIODS = {}
    /\ expected_period = NoPeriod
    /\ actual_period = NoPeriod
    /\ broker = "Consensus"
    /\ report_type = "Standalone"
    /\ show_all = TRUE
    /\ selected_name = ShowAllLabel
    /\ idx = 1
    /\ rows = <<>>
    /\ row = NoRow("unset")
    /\ cur_isin = NoIsin
    /\ df_all = <<>>
    /\ view = "none"

Frame == <<Session, ALL_ACTUALS, ALL_PREVIEWS, pc, EXPECTED_PERIODS, ACTUAL_PERIODS,
           expected_period, actual_period, broker, report_type, show_all,
           selected_name, idx, rows, row, cur_isin, df_all, view>>

\* The call pct(pa, pe).
CallPct ==
    /\ pc = "pct"
    /\ pr = Missing
    /\ pr' = pct(pa, pe)
    /\ UNCHANGED <<pa, pe, Frame>>

\* The next call's arguments.
NextCall ==
    /\ pc = "pct"
    /\ pr # Missing
    /\ pa' \in PctInputs
    /\ pe' \in PctInputs
    /\ pr' = Missing
    /\ UNCHANGED Frame

NextPct == CallPct \/ NextCall

SpecPct == InitPct /\ [][NextPct]_vars

(***************************************************************************)
(* Claims.                                                                 *)
(***************************************************************************)
\* The arguments of the call whose result is row.
Called == row.kind \in {"row", "None", "raise"}

\* v = (a / e - 1) * 100, by cross-multiplication.
IsPctOf(v, a, e) ==
    IsNum(v) /\ v[1] * e[1] * a[2] = v[2] * 100 * (a[1] * e[2] - e[1] * a[2])

\* v = (a - e) * 100, by cross-multiplication.
IsBpsOf(v, a, e) ==
    IsNum(v) /\ v[1] * a[2] * e[2] = v[2] * 100 * (a[1] * e[2] - e[1] * a[2])

\* C1: pct(a, e) is None exactly when a is None, e is None or e is zero;
\* otherwise it is (a / e - 1) * 100, so pct(100, 80) = 25 and
\* pct(80, 100) = -20; and it never raises.
C1_PctContract ==
    pr # Missing =>
        /\ pr # ZeroDivisionError
        /\ (pr = None) <=> (pa = None \/ pe = None \/ pe = Num(0))
        /\ pr # None => IsPctOf(pr, pa, pe)
        /\ (pa = Num(100) /\ pe = Num(80)) => pr = Num(25)
        /\ (pa = Num(80) /\ pe = Num(100)) => pr = Num(-20)

C1_Witness == pa = Num(100) /\ pe = Num(80) /\ pr = Num(25)

\* C2: for a present actual and a present non-zero expected value of either
\* sign, pct is 0 exactly when actual equals expected and positive exactly
\* when actual exceeds expected.
C2_SignMeansExceeds ==
    (pr # Missing /\ IsNum(pa) /\ IsNum(pe) /\ pe # Num(0)) =>
        /\ (pr = Num(0)) <=> (pa = pe)
        /\ Positive(pr) <=> Greater(pa, pe)

\* The result of app_old.py's process_company for the call whose result is row.
OldRow ==
    process_company_old(ALL_PREVIEWS, ALL_ACTUALS, cur_isin, expected_period,
                        actual_period, report_type, broker)

\* C3: in a returned row every beat flag is 1 exactly when the metric's
\* difference is present and greater than zero, and Total Beats is the number
\* of flags that are 1: at most 5 in app.py, at most 4 in app_old.py.
C3_BeatFlags ==
    /\ row.kind = "row" =>
        /\ \A c \in Columns :
              /\ row.Beat[c] \in {0, 1}
              /\ (row.Beat[c] = 1) <=> (IsNum(row.Diff[c]) /\ row.Diff[c][1] > 0)
        /\ row.TotalBeats = Cardinality({c \in Columns : row.Beat[c] = 1})
        /\ row.TotalBeats \in 0..5
    /\ (Called /\ OldRow.kind = "row") =>
        /\ \A c \in OldColumns :
              /\ OldRow.Beat[c] \in {0, 1}
              /\ (OldRow.Beat[c] = 1) <=> (IsNum(OldRow.Diff[c]) /\ OldRow.Diff[c][1] > 0)
        /\ OldRow.TotalBeats = Cardinality({c \in OldColumns : OldRow.Beat[c] = 1})
        /\ OldRow.TotalBeats \in 0..4

C3_Witness ==
    /\ row.kind = "row"
    /\ row.Diff["Sales"] = None
    /\ row.Diff["PAT"] = Num(0)
    /\ row.Diff["EBITDA Margin"] = Num(-250)
    /\ row.Beat["EBITDA"] = 1
    /\ row.TotalBeats = 2
    /\ OldRow.TotalBeats = 1

\* C4: the margin difference of a row is None exactly when the actual or the
\* expected margin is None, and otherwise (actual - expected) * 100: 12.5
\* against 10 gives 250, 10 against 12.5 gives -250; an expected margin of
\* zero leaves it present.
C4_MarginDifference ==
    /\ row.kind = "row" =>
        \A c \in {"EBITDA Margin", "PAT Margin"} :
            /\ (row.Diff[c] = None) <=> (row.Act[c] = None \/ row.Exp[c] = None)
            /\ row.Diff[c] # None => IsBpsOf(row.Diff[c], row.Act[c], row.Exp[c])
            /\ (row.Act[c] = Half(25) /\ row.Exp[c] = Num(10)) => row.Diff[c] = Num(250)
            /\ (row.Act[c] = Num(10) /\ row.Exp[c] = Half(25)) => row.Diff[c] = Num(-250)
    /\ (Called /\ row.kind = "row") =>
        /\ OldRow.kind = "row"
        /\ OldRow.Diff["Margin (bps)"] = None
              <=> (row.Act["EBITDA Margin"] = None \/ row.Exp["EBITDA Margin"] = None)
        /\ OldRow.Diff["Margin (bps)"] # None =>
              IsBpsOf(OldRow.Diff["Margin (bps)"], row.Act["EBITDA Margin"],
                      row.Exp["EBITDA Margin"])

C4_Witness ==
    /\ row.kind = "row"
    /\ row.Act["EBITDA Margin"] = Num(10)
    /\ row.Exp["EBITDA Margin"] = Num(0)
    /\ row.Diff["EBITDA Margin"] = Num(1000)
    /\ row.Act["PAT Margin"] = Num(8)
    /\ row.Exp["PAT Margin"] = None
    /\ row.Diff["PAT Margin"] = None

\* The company has a non-empty actual block for the statement type and period.
HasActualRecord(isin, rt, ap) ==
    LET e == ActualEntry(ALL_ACTUALS, isin)
    IN  /\ e.kind = "entry"
        /\ e.data[rt].kind = "dict"
        /\ e.data[rt].akind = "dict"
        /\ ap \in DOMAIN e.data[rt].per
        /\ e.data[rt].per[ap].kind = "dict"
        /\ \E k \in ActKeys : e.data[rt].per[ap].f[k] # Missing

HasExpectedRecord(isin, ep) == <<isin, ep>> \in DOMAIN ALL_PREVIEWS

\* C5: process_company returns None whenever the company has no actual record
\* for the selected statement type and period, whether or not the expected
\* record exists and whether or not the other statement type has the period;
\* it returns the same None when the expected record is missing.
C5_MissingRecordIsNone ==
    Called =>
        /\ ~HasActualRecord(cur_isin, report_type, actual_period) => row = NoRow("None")
        /\ ~HasExpectedRecord(cur_isin, expected_period) => row = NoRow("None")

C5_Witness ==
    /\ Called
    /\ report_type = "Standalone"
    /\ ~HasActualRecord(cur_isin, "Standalone", actual_period)
    /\ HasActualRecord(cur_isin, "Consolidated", actual_period)
    /\ HasExpectedRecord(cur_isin, expected_period)
    /\ row = NoRow("None")

\* The broker_estimates list of the expected record of the call (empty when
\* the key is missing or null).
CalledBrokers ==
    LET doc == ALL_PREVIEWS[<<cur_isin, expected_period>>].data
    IN  IF doc.bkind = "list" THEN doc.brokers ELSE <<>>

\* C6: with both records present, broker "Consensus" gives a row whatever the
\* broker_estimates list is; a broker name equal to no entry's broker_name
\* gives None; a matching name gives the values of the first matching entry.
C6_BrokerResolution ==
    (/\ Called
     /\ HasActualRecord(cur_isin, report_type, actual_period)
     /\ HasExpectedRecord(cur_isin, expected_period)) =>
        LET list == CalledBrokers
            matches == {i \in 1..Len(list) :
                          list[i].has_name /\ list[i].broker_name = broker}
            first == CHOOSE i \in matches : \A j \in matches : i <= j
        IN  /\ broker = "Consensus" => row.kind = "row"
            /\ (broker # "Consensus" /\ matches = {}) => row.kind = "None"
            /\ (broker # "Consensus" /\ matches # {}) =>
                  /\ row.kind = "row"
                  /\ \A c \in Columns : row.Exp[c] = Get(list[first].f[ExpKey(c)])

\* C6 apart from a null consensus block or consensus entry: the same
\* statement for the expected records whose consensus can be read.
C6_ReadableConsensus ==
    (/\ Called
     /\ HasExpectedRecord(cur_isin, expected_period)
     /\ ConsensusValues(ALL_PREVIEWS[<<cur_isin, expected_period>>].data).kind = "raise"
     /\ broker = "Consensus")
    \/ C6_BrokerResolution

\* The place of a company in the iteration order of ALL_ACTUALS.
Place(isin) == CHOOSE i \in 1..Len(ALL_ACTUALS) : ALL_ACTUALS[i].isin = isin

\* C7: the all-companies table is in descending order of Total Beats, and
\* companies with equal Total Beats keep the order of ALL_ACTUALS.
C7_SortedStable ==
    view = "table" =>
        \A i, j \in 1..Len(df_all) :
            i < j =>
                /\ df_all[i].TotalBeats >= df_all[j].TotalBeats
                /\ df_all[i].TotalBeats = df_all[j].TotalBeats =>
                      Place(df_all[i].ISIN) < Place(df_all[j].ISIN)

\* The part of C7 the sort does give: the descending order.
C7_Descending ==
    view = "table" =>
        \A i, j \in 1..Len(df_all) :
            i < j => df_all[i].TotalBeats >= df_all[j].TotalBeats

\* process_company for the i-th company under the selection of the run.
CompanyRow(i) ==
    process_company(ALL_PREVIEWS, ALL_ACTUALS, ALL_ACTUALS[i].isin, expected_period,
                    actual_period, report_type, broker)

\* C8: the all-companies table has exactly one row for each company whose
\* process_company is a row and none for a company whose process_company is
\* None; when every company gives None the run ends with the warning, and
\* an all-companies run only fails where process_company raises.
C8_TableRows ==
    LET N == Len(ALL_ACTUALS)
        found == {i \in 1..N : CompanyRow(i).kind = "row"}
    IN  /\ view = "table" =>
            /\ \A i \in 1..N :
                  Cardinality({k \in 1..Len(df_all) :
                                  df_all[k].ISIN = ALL_ACTUALS[i].isin})
                     = IF i \in found THEN 1 ELSE 0
            /\ Len(df_all) = Cardinality(found)
        /\ (pc = "done" /\ show_all) =>
            /\ view \in {"table", "warning"}
            /\ (view = "warning") <=> (\A i \in 1..N : CompanyRow(i).kind = "None")
        /\ (pc = "crashed" /\ Called) => row.kind = "raise"

C8_Witness ==
    /\ view = "table"
    /\ Len(df_all) = 2
    /\ \E i \in 1..Len(ALL_ACTUALS) : CompanyRow(i).kind = "None"

\* C9: whatever is missing or null in the documents, process_company ends with
\* None or with a row, and neither view ends in an exception.
C9_NeverRaises ==
    Called => (row.kind \in {"row", "None"} /\ view # "exception")

\* The values a metric's actual or expected value is changed to.
VariantValues == {Missing, None, Num(0), Num(100)}

\* ALL_ACTUALS with the actual value of column c of the called record set to v.
ActualsWith(c, v) ==
    [i \in 1..Len(ALL_ACTUALS) |->
        IF ALL_ACTUALS[i].isin = cur_isin
        THEN [ALL_ACTUALS[i] EXCEPT
                 !.data[report_type].per[actual_period].f[ActKey(c)] = v]
        ELSE ALL_ACTUALS[i]]

\* ALL_PREVIEWS with the expected value of column c set to v in the source
\* the call reads: the consensus entry, or the first entry of the broker.
PreviewsWith(c, v) ==
    LET k == <<cur_isin, expected_period>>
        m == FirstMatch(ALL_PREVIEWS[k].data.brokers, broker, 1)
    IN  IF broker = "Consensus"
        THEN [ALL_PREVIEWS EXCEPT ![k].data.cons[ExpKey(c)] =
                 IF v = Missing THEN [kind |-> "absent", mean |-> Missing]
                 ELSE [kind |-> "dict", mean |-> v]]
        ELSE [ALL_PREVIEWS EXCEPT ![k].data.brokers[m].f[ExpKey(c)] = v]

\* process_company for the call of row with one value of column c changed.
Variant(c, side, v) ==
    process_company(IF side = "exp" THEN PreviewsWith(c, v) ELSE ALL_PREVIEWS,
                    IF side = "act" THEN ActualsWith(c, v) ELSE ALL_ACTUALS,
                    cur_isin, expected_period, actual_period, report_type, broker)

\* The actual block of the call has no key but that of column c.
OnlyKey(c) ==
    LET e == ActualEntry(ALL_ACTUALS, cur_isin)
    IN  \A k \in ActKeys \ {ActKey(c)} :
            e.data[report_type].per[actual_period].f[k] = Missing

Uncomputable(r, c) ==
    r.Act[c] = None \/ r.Exp[c] = None \/ (c \in PctColumns /\ r.Exp[c] = Num(0))

\* C10: changing one metric's actual or expected value (to another number, to
\* zero, to None or to a missing key) leaves the differences and flags of the
\* other four metrics as they are and changes Total Beats by that metric's
\* flag only; a metric that cannot be computed has difference None and flag 0
\* in a row that is still returned (an actual block left without any key is
\* no record: C5).
C10_Independence ==
    row.kind = "row" =>
        \A c \in Columns, side \in {"act", "exp"}, v \in VariantValues :
            LET r2 == Variant(c, side, v)
            IN  /\ r2.kind = "row" \/ (side = "act" /\ v = Missing /\ OnlyKey(c))
                /\ r2.kind = "row" =>
                    /\ \A o \in Columns \ {c} :
                          /\ r2.Diff[o] = row.Diff[o]
                          /\ r2.Beat[o] = row.Beat[o]
                    /\ r2.TotalBeats - row.TotalBeats = r2.Beat[c] - row.Beat[c]
                    /\ Abs(r2.TotalBeats - row.TotalBeats) <= 1
                    /\ (IF side = "act" THEN r2.Act[c] ELSE r2.Exp[c]) = Get(v)
                    /\ Uncomputable(r2, c) => (r2.Diff[c] = None /\ r2.Beat[c] = 0)
                /\ Uncomputable(row, c) => (row.Diff[c] = None /\ row.Beat[c] = 0)

\* A row with four beats of which the PAT margin turns uncomputable when its
\* expected value is removed: three beats are left.
C10_Witness ==
    /\ row.kind = "row"
    /\ row.TotalBeats = 4
    /\ row.Beat["PAT Margin"] = 1
    /\ row.Diff["Sales"] = None
    /\ Variant("PAT Margin", "exp", Missing).kind = "row"
    /\ Variant("PAT Margin", "exp", Missing).TotalBeats = 3
    /\ Variant("PAT Margin", "exp", Missing).Diff["PAT Margin"] = None

\* The document has no display name: no symbolmap block, no Company_Name key,
\* or a Company_Name that is null.
NameUnavailable(d) ==
    d.skind = "absent" \/ (d.skind = "dict" /\ d.nkind \in {"absent", "null"})

\* COL_ACTUAL with the display name of the called company's document set to nm.
DocsNamed(nm) ==
    [n \in 1..Len(COL_ACTUAL) |->
        IF COL_ACTUAL[n].company = cur_isin
        THEN [COL_ACTUAL[n] EXCEPT !.skind = nm[1], !.nkind = nm[2], !.Company_Name = nm[3]]
        ELSE COL_ACTUAL[n]]

\* process_company for the call of row after a load of DocsNamed(nm).
Renamed(nm) ==
    process_company(ALL_PREVIEWS, load_all_actuals(DocsNamed(nm)).map, cur_isin,
                    expected_period, actual_period, report_type, broker)

\* The differences, flags and Total Beats of the row are those of the same
\* call whatever the display name of the company's document is.
NameIndependent ==
    \A nm \in NameVariants :
        load_all_actuals(DocsNamed(nm)).kind = "ok" =>
            /\ Renamed(nm).kind = "row"
            /\ Renamed(nm).Diff = row.Diff
            /\ Renamed(nm).Beat = row.Beat
            /\ Renamed(nm).TotalBeats = row.TotalBeats

\* C11: a company whose document has no display name (no symbolmap, no
\* Company_Name key, or a null Company_Name) is stored by load_all_actuals
\* under its ISIN as name and has that ISIN as Company of its row; the
\* differences, flags and Total Beats of a row do not depend on the name.
C11_NameFallsBackToIsin ==
    /\ \A i \in 1..Len(ALL_ACTUALS) :
          NameUnavailable(ALL_ACTUALS[i].data) =>
              ALL_ACTUALS[i].name = ALL_ACTUALS[i].isin
    /\ row.kind = "row" =>
          /\ NameUnavailable(ActualEntry(ALL_ACTUALS, cur_isin).data) =>
                row.Company = cur_isin
          /\ NameIndependent

\* C11 apart from a null Company_Name: the fallback for a missing symbolmap
\* or a missing Company_Name key, and the independence of the numbers.
C11_MissingKeyFallsBack ==
    /\ \A i \in 1..Len(ALL_ACTUALS) :
          LET d == ALL_ACTUALS[i].data
          IN  (d.skind = "absent" \/ (d.skind = "dict" /\ d.nkind = "absent")) =>
                  ALL_ACTUALS[i].name = ALL_ACTUALS[i].isin
    /\ row.kind = "row" =>
          LET d == ActualEntry(ALL_ACTUALS, cur_isin).data
          IN  /\ (d.skind = "absent" \/ (d.skind = "dict" /\ d.nkind = "absent")) =>
                    row.Company = cur_isin
              /\ (d.skind = "dict" /\ d.nkind = "null") => row.Company = NoName
              /\ NameIndependent

\* A row of a company whose document has no symbolmap, named by its ISIN.
C11_FallbackReached ==
    /\ row.kind = "row"
    /\ ActualEntry(ALL_ACTUALS, cur_isin).data.skind = "absent"
    /\ row.Company = cur_isin
    /\ row.TotalBeats = 2

\* "auth_ok" in st.session_state.
AuthOk == "auth_ok" \in session_state

\* The run is past the login gate: the tables are loaded or in use.
PastGate == pc \in {"start", "sidebar", "all", "single", "done"}

\* The tables hold something, or a comparison was computed or rendered.
Computed ==
    \/ ALL_ACTUALS # <<>>
    \/ ALL_PREVIEWS # EmptyFn
    \/ Called
    \/ rows # <<>>
    \/ view \in {"table", "warning", "single", "error"}

\* In every state: no load and no comparison without auth_ok, and auth_ok
\* only with the configured user name and password as the last submit.
GatedState ==
    /\ (PastGate \/ Computed) => AuthOk
    /\ AuthOk => /\ login_u = st_secrets["AUTH_USER"]
                 /\ login_p = st_secrets["AUTH_PASS"]

\* In every step: a load or a call of process_company starts from a state
\* that holds auth_ok; auth_ok appears only in a submit of the login form
\* with the configured credentials; it is never removed, and no step from a
\* state that holds it shows the login form.
GatedStep ==
    /\ (ALL_ACTUALS' # ALL_ACTUALS \/ ALL_PREVIEWS' # ALL_PREVIEWS \/ row' # row
        \/ df_all' # df_all) => (AuthOk /\ AuthOk')
    /\ (~AuthOk /\ AuthOk') =>
          /\ pc = "login"
          /\ login_u' = st_secrets["AUTH_USER"]
          /\ login_p' = st_secrets["AUTH_PASS"]
          /\ pc' = "gate"
    /\ AuthOk => /\ AuthOk'
                 /\ pc' # "login"
                 /\ view' \notin {"login", "invalid"}
                 /\ UNCHANGED <<login_u, login_p>>

\* C12: over the reruns of one session the tables are loaded and a comparison
\* is computed only in runs that start with auth_ok in session_state; auth_ok
\* is set only by a login submit whose user name and password are the
\* configured ones; once set it stays, and every later run skips the login.
C12_AuthGate == []GatedState /\ [][GatedStep]_vars

\* A later run of a logged-in session, past the gate without a login: the
\* period lists of the earlier run are still there.
C12_Witness ==
    /\ AuthOk
    /\ pc = "start"
    /\ ACTUAL_PERIODS # {}
    /\ ALL_ACTUALS # <<>>
    /\ view = "none"

=============================================================================
